---- MODULE Spec2Model ----
(***************************************************************************)
(* TaskManagerAPI (src/api/api.py) over the five relations of              *)
(* src/api/models.py, driven through one shared SQLAlchemy session.        *)
(*                                                                         *)
(* The committed store is the five table variables; `pending` is the       *)
(* session's unit of work (writes added or set but not yet committed);     *)
(* `seq` holds the next primary key of each table; `last` is the last      *)
(* public call and what it handed back (an id, True, or an error).         *)
(***************************************************************************)
EXTENDS Integers, Sequences, FiniteSets, TLC

VARIABLES users, user_ids, tasks, regular_tasks, irregular_tasks,
          seq, pending, last

vars == <<users, user_ids, tasks, regular_tasks, irregular_tasks,
          seq, pending, last>>

(***************************************************************************)
(* Bounds and input domains.                                               *)
(***************************************************************************)
\* Total number of users, identifiers and tasks ever inserted.
MaxRows == 3


\* Python's None: as a returned object, and as a string/date argument.
None == [none |-> TRUE]
NoneArg == "<None>"

\* Python truthiness of an optional string/date argument (`if name:`).
Truthy(x) == x # NoneArg /\ x # ""

(***************************************************************************)
(* The store: a database value is a record of the five tables.             *)
(***************************************************************************)
DB == [users |-> users, user_ids |-> user_ids, tasks |-> tasks,
       regular_tasks |-> regular_tasks, irregular_tasks |-> irregular_tasks]

\* ForeignKey("users.id") / ForeignKey("tasks.id"): the store rejects a row
\* whose parent is missing.
ForeignKeysHold(d) ==
    /\ \A r \in d.user_ids : \E u \in d.users : u.id = r.user_id
    /\ \A t \in d.tasks : \E u \in d.users : u.id = t.user_id
    /\ \A r \in d.regular_tasks : \E t \in d.tasks : t.id = r.task_id
    /\ \A r \in d.irregular_tasks : \E t \in d.tasks : t.id = r.task_id

\* Task.regular_task / Task.irregular_task: cascade="all, delete-orphan",
\* ondelete="CASCADE".
DeleteTaskCascade(d, task_id) ==
    [d EXCEPT !.tasks = {t \in @ : t.id # task_id},
              !.regular_tasks = {r \in @ : r.task_id # task_id},
              !.irregular_tasks = {r \in @ : r.task_id # task_id}]

\* A cascade that takes every user's tasks along.
DeleteUserCascade_AllTasks(d, user_id) ==
    [d EXCEPT !.users = {u \in @ : u.id # user_id},
              !.user_ids = {r \in @ : r.user_id # user_id},
              !.tasks = {},
              !.regular_tasks = {},
              !.irregular_tasks = {}]

\* User.identifiers / User.tasks: cascade="all, delete-orphan",
\* ondelete="CASCADE"; each task deleted takes its extension rows with it.

DeleteUserCascade(d, user_id) ==
    LET gone == {t.id : t \in {t \in d.tasks : t.user_id = user_id}}
    IN  [d EXCEPT !.users = {u \in @ : u.id # user_id},
                  !.user_ids = {r \in @ : r.user_id # user_id},
                  !.tasks = {t \in @ : t.id \notin gone},
                  !.regular_tasks = {r \in @ : r.task_id \notin gone},
                  !.irregular_tasks = {r \in @ : r.task_id \notin gone}]

\* The writes a session can hold.
Insert(table, row) == [kind |-> "insert", table |-> table, row |-> row]
SetField(table, id, field, value) ==
    [kind |-> "update", table |-> table, id |-> id, field |-> field, value |-> value]
Delete(table, id) == [kind |-> "delete", table |-> table, id |-> id]

ApplyWrite(d, w) ==
    CASE w.kind = "insert" ->
            [d EXCEPT ![w.table] = @ \cup {w.row}]
      [] w.kind = "update" ->
            [d EXCEPT ![w.table] =
                {IF r.id = w.id THEN [r EXCEPT ![w.field] = w.value] ELSE r : r \in @}]
      [] w.kind = "delete" /\ w.table = "users" -> DeleteUserCascade(d, w.id)
      [] w.kind = "delete" /\ w.table = "tasks" -> DeleteTaskCascade(d, w.id)

\* session.flush(): the pending writes applied in order.
RECURSIVE Flush(_, _)
Flush(d, ws) == IF ws = <<>> THEN d ELSE Flush(ApplyWrite(d, Head(ws)), Tail(ws))

\* What a query of the session sees (autoflush).
View == Flush(DB, pending)

\* query(...).filter_by(id=...).first()
First(rows) == IF rows = {} THEN None ELSE CHOOSE r \in rows : \A q \in rows : r.id <= q.id

\* A handler that forgets session.rollback().
CommitOrRollback_NoRollback(d, held, ws, store_fails) ==
    LET all == held \o ws
        flushed == Flush(d, all)
    IN  IF store_fails \/ ~ForeignKeysHold(flushed)
        THEN [db |-> d, pending |-> all, ok |-> FALSE]
        ELSE [db |-> flushed, pending |-> <<>>, ok |-> TRUE]

(***************************************************************************)
(* session.commit() with the handler's `except SQLAlchemyError: rollback`. *)
(* `ws` are the writes the handler added to the session; store_fails is    *)
(* the store raising for a reason of its own (connectivity, ...).          *)
(* Yields the committed database, the session's pending writes and whether *)
(* the commit went through.                                                *)
(***************************************************************************)

CommitOrRollback(d, held, ws, store_fails) ==
    LET all == held \o ws
        flushed == Flush(d, all)
    IN  IF store_fails \/ ~ForeignKeysHold(flushed)
        THEN [db |-> d, pending |-> <<>>, ok |-> FALSE]
        ELSE [db |-> flushed, pending |-> <<>>, ok |-> TRUE]

\* The handler's outcome written back to the state.
Store(r) ==
    /\ users' = r.db.users
    /\ user_ids' = r.db.user_ids
    /\ tasks' = r.db.tasks
    /\ regular_tasks' = r.db.regular_tasks
    /\ irregular_tasks' = r.db.irregular_tasks
    /\ pending' = r.pending

\* `raise Exception(... не найден)`: not an SQLAlchemyError, so the handler's
\* except clause does not run and the session is left as it is.
RaiseNotFound == [db |-> DB, pending |-> pending, ok |-> FALSE]

\* What the caller gets: `return <id>` / `return True` (id 0), or an Exception.
Outcome(op, r, id) == [op |-> op, ok |-> r.ok, id |-> IF r.ok THEN id ELSE 0]

\* Primary keys count up and are never handed out twice; a row that was
\* rolled back leaves no trace in the numbering. Drawn is the number of
\* users, identifiers and tasks inserted so far.
Drawn == (seq.users - 1) + (seq.user_ids - 1) + (seq.tasks - 1)

Init ==
    /\ users = {}
    /\ user_ids = {}
    /\ tasks = {}
    /\ regular_tasks = {}
    /\ irregular_tasks = {}
    /\ seq = [users |-> 1, user_ids |-> 1, tasks |-> 1,
              regular_tasks |-> 1, irregular_tasks |-> 1]
    /\ pending = <<>>
    /\ last = [op |-> "__init__", ok |-> TRUE, id |-> 0]

(***************************************************************************)
(* Reads.                                                                  *)
(***************************************************************************)
get_user(user_id) == First({u \in View.users : u.id = user_id})

get_task(task_id) == First({t \in View.tasks : t.id = task_id})

get_user_tasks(user_id) == {t \in View.tasks : t.user_id = user_id}

\* query(UserID).filter_by(identifier=..., identifier_type=...).first() has
\* no ORDER BY: the store may hand back any matching row. The set of users
\* the call can return (None when no row matches).
get_user_by_identifier(identifier, identifier_type) ==
    LET rows == {r \in View.user_ids :
                    r.identifier = identifier /\ r.identifier_type = identifier_type}
    IN  IF rows = {} THEN {None} ELSE {get_user(r.user_id) : r \in rows}

\* task.regular_task / task.irregular_task (uselist=False).
regular_task_of(task_id) == First({r \in View.regular_tasks : r.task_id = task_id})
irregular_task_of(task_id) == First({r \in View.irregular_tasks : r.task_id = task_id})

\* A merge that copies one of the two deadlines only.
get_task_details_OneDeadline(task_id) ==
    LET task == get_task(task_id)
        result == [id |-> task.id, name |-> task.name, progress |-> task.progress,
                   is_regular |-> task.is_regular, user_id |-> task.user_id]
    IN  IF task = None THEN None
        ELSE IF task.is_regular /\ regular_task_of(task_id) # None
        THEN result @@ [weekdays |-> regular_task_of(task_id).weekdays]
        ELSE IF ~task.is_regular /\ irregular_task_of(task_id) # None
        THEN result @@ [optimal_deadline |-> irregular_task_of(task_id).optimal_deadline]
        ELSE result

get_task_details(task_id) ==
    LET task == get_task(task_id)
        result == [id |-> task.id, name |-> task.name, progress |-> task.progress,
                   is_regular |-> task.is_regular, user_id |-> task.user_id]
    IN  IF task = None THEN None
        ELSE IF task.is_regular /\ regular_task_of(task_id) # None
        THEN result @@ [weekdays |-> regular_task_of(task_id).weekdays]
        ELSE IF ~task.is_regular /\ irregular_task_of(task_id) # None
        THEN result @@ [optimal_deadline |-> irregular_task_of(task_id).optimal_deadline,
                        hard_deadline |-> irregular_task_of(task_id).hard_deadline]
        ELSE result

(***************************************************************************)
(* Operations on users.                                                    *)
(***************************************************************************)
\* A create_user whose key is one more than the number of rows.
create_user_ReusesId(name, store_fails) ==
    /\ LET user == [id |-> Cardinality(users) + 1, name |-> name]
           r == CommitOrRollback(DB, pending, <<Insert("users", user)>>, store_fails)
       IN  /\ Store(r)
           /\ last' = Outcome("create_user", r, user.id)
           /\ seq' = [seq EXCEPT !.users = IF r.ok THEN @ + 1 ELSE @]

create_user(name, store_fails) ==
    /\ LET user == [id |-> seq.users, name |-> name]
           r == CommitOrRollback(DB, pending, <<Insert("users", user)>>, store_fails)
       IN  /\ Store(r)
           /\ last' = Outcome("create_user", r, user.id)
           /\ seq' = [seq EXCEPT !.users = IF r.ok THEN @ + 1 ELSE @]

add_user_identifier(user_id, identifier, identifier_type, store_fails) ==
    /\ LET user_id_obj == [id |-> seq.user_ids, user_id |-> user_id,
                           identifier |-> identifier,
                           identifier_type |-> identifier_type]
           r == CommitOrRollback(DB, pending, <<Insert("user_ids", user_id_obj)>>,
                                 store_fails)
       IN  /\ Store(r)
           /\ last' = Outcome("add_user_identifier", r, user_id_obj.id)
           /\ seq' = [seq EXCEPT !.user_ids = IF r.ok THEN @ + 1 ELSE @]

update_user(user_id, name, store_fails) ==
    /\ LET r == IF get_user(user_id) = None
                THEN RaiseNotFound
                ELSE CommitOrRollback(DB, pending,
                        <<SetField("users", user_id, "name", name)>>, store_fails)
       IN  /\ Store(r)
           /\ last' = Outcome("update_user", r, 0)
    /\ UNCHANGED seq

delete_user(user_id, store_fails) ==
    /\ LET r == IF get_user(user_id) = None
                THEN RaiseNotFound
                ELSE CommitOrRollback(DB, pending, <<Delete("users", user_id)>>,
                                      store_fails)
       IN  /\ Store(r)
           /\ last' = Outcome("delete_user", r, 0)
    /\ UNCHANGED seq

(***************************************************************************)
(* Operations on tasks.                                                    *)
(***************************************************************************)
\* A create_task that drops its is_regular argument (the column default).
create_task_unit_FlagDropped(d, held, user_id, name, is_regular, store_fails) ==
    LET task == [id |-> seq.tasks, user_id |-> user_id, name |-> name,
                 progress |-> 0, is_regular |-> FALSE]
    IN  CommitOrRollback(d, held, <<Insert("tasks", task)>>, store_fails)

\* The body of create_task: one unit of work inserting the base Task row
\* (progress takes the column default 0).
create_task_unit(d, held, user_id, name, is_regular, store_fails) ==
    LET task == [id |-> seq.tasks, user_id |-> user_id, name |-> name,
                 progress |-> 0, is_regular |-> is_regular]
    IN  CommitOrRollback(d, held, <<Insert("tasks", task)>>, store_fails)

create_task(user_id, name, is_regular, store_fails) ==
    /\ LET r == create_task_unit(DB, pending, user_id, name, is_regular, store_fails)
       IN  /\ Store(r)
           /\ last' = Outcome("create_task", r, seq.tasks)
           /\ seq' = [seq EXCEPT !.tasks = IF r.ok THEN @ + 1 ELSE @]

\* A create_regular_task that adds both rows and commits once.
create_regular_task_OneCommit(user_id, name, weekdays, fail_at) ==
    /\ LET task_id == seq.tasks
           task == [id |-> task_id, user_id |-> user_id, name |-> name,
                    progress |-> 0, is_regular |-> TRUE]
           regular_task == [id |-> seq.regular_tasks, task_id |-> task_id,
                            weekdays |-> weekdays]
           r == CommitOrRollback(DB, pending,
                                 <<Insert("tasks", task),
                                   Insert("regular_tasks", regular_task)>>,
                                 fail_at # "none")
       IN  /\ Store(r)
           /\ seq' = [seq EXCEPT !.tasks = IF r.ok THEN @ + 1 ELSE @,
                                 !.regular_tasks = IF r.ok THEN @ + 1 ELSE @]
           /\ last' = Outcome("create_regular_task", r, task_id)

\* create_task commits the base row; the extension row is a second unit of
\* work. An Exception out of create_task is not an SQLAlchemyError and passes
\* through the outer handler. fail_at: "none", "task" or "extension".
create_regular_task(user_id, name, weekdays, fail_at) ==
    /\ LET task_id == seq.tasks
           r1 == create_task_unit(DB, pending, user_id, name, TRUE, fail_at = "task")
           regular_task == [id |-> seq.regular_tasks, task_id |-> task_id,
                            weekdays |-> weekdays]
           r2 == CommitOrRollback(r1.db, r1.pending,
                                  <<Insert("regular_tasks", regular_task)>>,
                                  fail_at = "extension")
           r == IF r1.ok THEN r2 ELSE r1
       IN  /\ Store(r)
           /\ seq' = [seq EXCEPT !.tasks = IF r1.ok THEN @ + 1 ELSE @,
                                 !.regular_tasks = IF r.ok THEN @ + 1 ELSE @]
           /\ last' = Outcome("create_regular_task", r, task_id)

\* A create_irregular_task whose create_task call was copied from
\* create_regular_task together with its is_regular=True.
create_irregular_task_RegularFlag(user_id, name, optimal_deadline, hard_deadline, fail_at) ==
    /\ LET task_id == seq.tasks
           r1 == create_task_unit(DB, pending, user_id, name, TRUE, fail_at = "task")
           irregular_task == [id |-> seq.irregular_tasks, task_id |-> task_id,
                              optimal_deadline |-> optimal_deadline,
                              hard_deadline |-> hard_deadline]
           r2 == CommitOrRollback(r1.db, r1.pending,
                                  <<Insert("irregular_tasks", irregular_task)>>,
                                  fail_at = "extension")
           r == IF r1.ok THEN r2 ELSE r1
       IN  /\ Store(r)
           /\ seq' = [seq EXCEPT !.tasks = IF r1.ok THEN @ + 1 ELSE @,
                                 !.irregular_tasks = IF r.ok THEN @ + 1 ELSE @]
           /\ last' = Outcome("create_irregular_task", r, task_id)

create_irregular_task(user_id, name, optimal_deadline, hard_deadline, fail_at) ==
    /\ LET task_id == seq.tasks
           r1 == create_task_unit(DB, pending, user_id, name, FALSE, fail_at = "task")
           irregular_task == [id |-> seq.irregular_tasks, task_id |-> task_id,
                              optimal_deadline |-> optimal_deadline,
                              hard_deadline |-> hard_deadline]
           r2 == CommitOrRollback(r1.db, r1.pending,
                                  <<Insert("irregular_tasks", irregular_task)>>,
                                  fail_at = "extension")
           r == IF r1.ok THEN r2 ELSE r1
       IN  /\ Store(r)
           /\ seq' = [seq EXCEPT !.tasks = IF r1.ok THEN @ + 1 ELSE @,
                                 !.irregular_tasks = IF r.ok THEN @ + 1 ELSE @]
           /\ last' = Outcome("create_irregular_task", r, task_id)

\* An update_task_progress that clamps to the documented range 0-100.
update_task_progress_Clamped(task_id, progress, store_fails) ==
    /\ LET clamped == IF progress < 0 THEN 0 ELSE IF progress > 100 THEN 100
                      ELSE progress
           r == IF get_task(task_id) = None
                THEN RaiseNotFound
                ELSE CommitOrRollback(DB, pending,
                        <<SetField("tasks", task_id, "progress", clamped)>>,
                        store_fails)
       IN  /\ Store(r)
           /\ last' = Outcome("update_task_progress", r, 0)
    /\ UNCHANGED seq

update_task_progress(task_id, progress, store_fails) ==
    /\ LET r == IF get_task(task_id) = None
                THEN RaiseNotFound
                ELSE CommitOrRollback(DB, pending,
                        <<SetField("tasks", task_id, "progress", progress)>>,
                        store_fails)
       IN  /\ Store(r)
           /\ last' = Outcome("update_task_progress", r, 0)
    /\ UNCHANGED seq

\* `if name:` / `if weekdays:` select the writes; one commit persists them.
update_regular_task(task_id, name, weekdays, store_fails) ==
    /\ LET regular_task == regular_task_of(task_id)
           ws == (IF Truthy(name)
                  THEN <<SetField("tasks", task_id, "name", name)>> ELSE <<>>)
                 \o (IF Truthy(weekdays)
                     THEN <<SetField("regular_tasks", regular_task.id,
                                     "weekdays", weekdays)>>
                     ELSE <<>>)
           r == IF regular_task = None
                THEN RaiseNotFound
                ELSE CommitOrRollback(DB, pending, ws, store_fails)
       IN  /\ Store(r)
           /\ last' = Outcome("update_regular_task", r, 0)
    /\ UNCHANGED seq

update_irregular_task(task_id, name, optimal_deadline, hard_deadline, store_fails) ==
    /\ LET irregular_task == irregular_task_of(task_id)
           ws == (IF Truthy(name)
                  THEN <<SetField("tasks", task_id, "name", name)>> ELSE <<>>)
                 \o (IF Truthy(optimal_deadline)
                     THEN <<SetField("irregular_tasks", irregular_task.id,
                                     "optimal_deadline", optimal_deadline)>>
                     ELSE <<>>)
                 \o (IF Truthy(hard_deadline)
                     THEN <<SetField("irregular_tasks", irregular_task.id,
                                     "hard_deadline", hard_deadline)>>
                     ELSE <<>>)
           r == IF irregular_task = None
                THEN RaiseNotFound
                ELSE CommitOrRollback(DB, pending, ws, store_fails)
       IN  /\ Store(r)
           /\ last' = Outcome("update_irregular_task", r, 0)
    /\ UNCHANGED seq

\* A delete_task without its `if not task: raise`.
delete_task_Unchecked(task_id, store_fails) ==
    /\ LET r == CommitOrRollback(DB, pending, <<Delete("tasks", task_id)>>,
                                 store_fails)
       IN  /\ Store(r)
           /\ last' = Outcome("delete_task", r, 0)
    /\ UNCHANGED seq

delete_task(task_id, store_fails) ==
    /\ LET r == IF get_task(task_id) = None
                THEN RaiseNotFound
                ELSE CommitOrRollback(DB, pending, <<Delete("tasks", task_id)>>,
                                      store_fails)
       IN  /\ Store(r)
           /\ last' = Outcome("delete_task", r, 0)
    /\ UNCHANGED seq

(***************************************************************************)
(* The caller: any public operation, with arguments drawn from an input    *)
(* profile (the values each specification lets the caller pass).           *)
(***************************************************************************)
FailPoints == {"none", "task", "extension"}

\* Ids a caller passes: every id handed out so far, and one never handed out.
UserIdArgs == 1..seq.users
TaskIdArgs == 1..seq.tasks

NextOn(P) ==
    \/ Drawn < P.rows /\ \E n \in P.new_user, f \in BOOLEAN : create_user(n, f)
    \/ Drawn < P.rows /\ \E u \in UserIdArgs, i \in P.identifier,
                            t \in P.identifier_type, f \in BOOLEAN :
          add_user_identifier(u, i, t, f)
    \/ \E u \in UserIdArgs, n \in P.user_name, f \in BOOLEAN : update_user(u, n, f)
    \/ \E u \in UserIdArgs, f \in BOOLEAN : delete_user(u, f)
    \/ Drawn < P.rows /\ \E u \in UserIdArgs, n \in P.new_task, g \in BOOLEAN,
                            f \in BOOLEAN :
          create_task(u, n, g, f)
    \/ Drawn < P.rows /\ \E u \in UserIdArgs, n \in P.new_task, w \in P.new_weekdays,
                            f \in FailPoints :
          create_regular_task(u, n, w, f)
    \/ Drawn < P.rows /\ \E u \in UserIdArgs, n \in P.new_task, d1 \in P.new_optimal,
                            d2 \in P.new_hard, f \in FailPoints :
          create_irregular_task(u, n, d1, d2, f)
    \/ \E t \in TaskIdArgs, p \in P.progress, f \in BOOLEAN :
          update_task_progress(t, p, f)
    \/ \E t \in TaskIdArgs, n \in P.task_name, w \in P.weekdays, f \in BOOLEAN :
          update_regular_task(t, n, w, f)
    \/ \E t \in TaskIdArgs, n \in P.task_name, d1 \in P.optimal, d2 \in P.hard,
          f \in BOOLEAN :
          update_irregular_task(t, n, d1, d2, f)
    \/ \E t \in TaskIdArgs, f \in BOOLEAN : delete_task(t, f)

\* The values of src/api/main.py; updates repeat the value a row was made
\* with. `rows` is how many users, identifiers and tasks the caller inserts.
Quiet ==
    [rows |-> MaxRows,
     new_user |-> {"Ivan"}, user_name |-> {"Ivan"},
     identifier |-> {"123456789"}, identifier_type |-> {"telegram"},
     new_task |-> {"Exercise"}, new_weekdays |-> {"1,2,3,4,5"},
     new_optimal |-> {"2025-05-10"}, new_hard |-> {"2025-05-15"},
     progress |-> {0}, task_name |-> {NoneArg}, weekdays |-> {NoneArg},
     optimal |-> {NoneArg}, hard |-> {NoneArg}]

\* The life cycle of rows: users renamed, rows made and deleted.
CoreInputs == [Quiet EXCEPT !.user_name = {"Petr"}]

\* Two identifiers, and room for two users to hold two identifier rows.
IdentifierInputs ==
    [Quiet EXCEPT !.rows = MaxRows + 1,
                  !.identifier = {"123456789", "987654321"}]

\* Progress, validated nowhere.
ProgressInputs == [Quiet EXCEPT !.progress = {-1, 101}]

\* Optional-argument updates of both task kinds.
UpdateInputs ==
    [Quiet EXCEPT !.task_name = {"Report", NoneArg, ""},
                  !.weekdays = {"6,7", NoneArg, ""},
                  !.optimal = {"2025-06-01", NoneArg},
                  !.hard = {"2025-06-01", NoneArg}]

Next == NextOn(CoreInputs)
NextIdentifier == NextOn(IdentifierInputs)
NextProgress == NextOn(ProgressInputs)
NextUpdate == NextOn(UpdateInputs)

Spec == Init /\ [][Next]_vars
SpecIdentifier == Init /\ [][NextIdentifier]_vars
SpecProgress == Init /\ [][NextProgress]_vars
SpecUpdate == Init /\ [][NextUpdate]_vars

(***************************************************************************)
(* Properties.                                                             *)
(***************************************************************************)
ExtensionIds(rows, task_id) == {r.id : r \in {r \in rows : r.task_id = task_id}}

\* C1: a successful delete_user(U) leaves U, U's tasks (with their extension
\* rows) and U's identifiers unfetchable, a successful delete_task(T) removes
\* T and its extension row, and in both cases every other row is unchanged.
C1_DeleteCascades ==
    [][ last'.ok =>
        /\ \A U \in UserIdArgs :
              last'.op = "delete_user" /\ delete_user(U, FALSE) =>
                LET mine == {t.id : t \in get_user_tasks(U)}
                IN  /\ get_user(U)' = None
                    /\ get_user_tasks(U)' = {}
                    /\ \A r \in {r \in user_ids : r.user_id = U} :
                          \A u \in get_user_by_identifier(r.identifier,
                                                          r.identifier_type)' :
                              u = None \/ u.id # U
                    /\ \A T \in mine :
                          /\ get_task(T)' = None
                          /\ get_task_details(T)' = None
                          /\ regular_task_of(T)' = None
                          /\ irregular_task_of(T)' = None
                    /\ users' = {u \in users : u.id # U}
                    /\ user_ids' = {r \in user_ids : r.user_id # U}
                    /\ tasks' = {t \in tasks : t.user_id # U}
                    /\ regular_tasks' = {r \in regular_tasks : r.task_id \notin mine}
                    /\ irregular_tasks' =
                          {r \in irregular_tasks : r.task_id \notin mine}
        /\ \A T \in TaskIdArgs :
              last'.op = "delete_task" /\ delete_task(T, FALSE) =>
                /\ get_task(T)' = None
                /\ get_task_details(T)' = None
                /\ regular_task_of(T)' = None
                /\ irregular_task_of(T)' = None
                /\ users' = users
                /\ user_ids' = user_ids
                /\ tasks' = {t \in tasks : t.id # T}
                /\ regular_tasks' = {r \in regular_tasks : r.task_id # T}
                /\ irregular_tasks' = {r \in irregular_tasks : r.task_id # T}
      ]_vars

\* A user who owned a task with its extension row was deleted, and another
\* user is still there.
C1_Witness ==
    /\ last.op = "delete_user" /\ last.ok
    /\ seq.users = 3 /\ Cardinality(users) = 1
    /\ seq.tasks = 2 /\ tasks = {}
    /\ seq.regular_tasks + seq.irregular_tasks = 3
    /\ regular_tasks = {} /\ irregular_tasks = {}

\* C2: update_user, delete_user, update_task_progress and delete_task on an
\* id with no matching row raise to the caller and leave every table as it
\* was.
C2_NotFoundRaises ==
    [][ /\ \A U \in UserIdArgs : get_user(U) = None =>
              \A f \in BOOLEAN :
                 /\ last'.op = "delete_user" /\ delete_user(U, f) =>
                       ~last'.ok /\ DB' = DB
                 /\ \A n \in CoreInputs.user_name :
                       last'.op = "update_user" /\ update_user(U, n, f) =>
                          ~last'.ok /\ DB' = DB
        /\ \A T \in TaskIdArgs : get_task(T) = None =>
              \A f \in BOOLEAN :
                 /\ last'.op = "delete_task" /\ delete_task(T, f) =>
                       ~last'.ok /\ DB' = DB
                 /\ \A p \in CoreInputs.progress :
                       last'.op = "update_task_progress"
                          /\ update_task_progress(T, p, f) =>
                          ~last'.ok /\ DB' = DB
      ]_vars

\* delete_user raised on the id of a user deleted before.
C2_Witness ==
    /\ last.op = "delete_user" /\ ~last.ok
    /\ users = {} /\ seq.users = 2

BaseFields == {"id", "name", "progress", "is_regular", "user_id"}

\* What get_task_details may answer for task id T, read off the tables: None
\* without a row, else the row's base fields, with the weekdays of a
\* RegularTask row of T when the flag is set, or the two deadlines of an
\* IrregularTask row of T when it is not.
ExpectedDetails(T) ==
    LET rows == {t \in tasks : t.id = T}
        reg == {r \in regular_tasks : r.task_id = T}
        irr == {r \in irregular_tasks : r.task_id = T}
    IN  IF rows = {} THEN {None}
        ELSE UNION {
               { [id |-> t.id, name |-> t.name, progress |-> t.progress,
                  is_regular |-> t.is_regular, user_id |-> t.user_id] @@ e :
                 e \in IF t.is_regular /\ reg # {}
                       THEN {[weekdays |-> r.weekdays] : r \in reg}
                       ELSE IF ~t.is_regular /\ irr # {}
                       THEN {[optimal_deadline |-> r.optimal_deadline,
                              hard_deadline |-> r.hard_deadline] : r \in irr}
                       ELSE {<<>>} } : t \in rows }

DetailsMatchTables(T) == get_task_details(T) \in ExpectedDetails(T)

\* C3: get_task_details(T) is None for a missing T and otherwise the base
\* fields of T merged with the fields of the extension its flag selects;
\* right after create_regular_task(U, n, w) it is {id, name n, progress 0,
\* is_regular true, user_id U, weekdays w}, and right after
\* create_irregular_task(U, n, d1, d2) it is {id, name n, progress 0,
\* is_regular false, user_id U, optimal_deadline d1, hard_deadline d2}.
\* (The answer is read off the tables in the first state and after every
\* step that changes a table; the other steps leave the answer as it was.)
C3_TaskDetails ==
    [][ /\ last.op = "__init__" => \A T \in TaskIdArgs : DetailsMatchTables(T)
        /\ DB' # DB \/ pending' # pending =>
              \A T \in TaskIdArgs' : DetailsMatchTables(T)'
        /\ \A U \in UserIdArgs, n \in ProgressInputs.new_task, T \in TaskIdArgs :
              /\ \A w \in ProgressInputs.new_weekdays :
                    last'.op = "create_regular_task" /\ last'.ok /\ last'.id = T
                       /\ create_regular_task(U, n, w, "none") =>
                       get_task_details(T)' =
                          [id |-> T, name |-> n, progress |-> 0,
                           is_regular |-> TRUE, user_id |-> U, weekdays |-> w]
              /\ \A d1 \in ProgressInputs.new_optimal, d2 \in ProgressInputs.new_hard :
                    last'.op = "create_irregular_task" /\ last'.ok /\ last'.id = T
                       /\ create_irregular_task(U, n, d1, d2, "none") =>
                       get_task_details(T)' =
                          [id |-> T, name |-> n, progress |-> 0,
                           is_regular |-> FALSE, user_id |-> U,
                           optimal_deadline |-> d1, hard_deadline |-> d2]
      ]_vars

\* An irregular task was just created and its details carry both deadlines,
\* next to a regular task whose details carry its weekdays.
C3_Witness ==
    /\ last.op = "create_irregular_task" /\ last.ok
    /\ DOMAIN get_task_details(last.id) =
          BaseFields \cup {"optimal_deadline", "hard_deadline"}
    /\ \E t \in tasks : "weekdays" \in DOMAIN get_task_details(t.id)
    /\ get_task_details(seq.tasks) = None

RegularRows(T) == {r \in regular_tasks : r.task_id = T}
IrregularRows(T) == {r \in irregular_tasks : r.task_id = T}
TaskIdsOf(rows) == {t.id : t \in rows}

\* C5 as stated: every persisted Task has exactly one extension row, of the
\* kind its flag selects, and none of the other kind.
C5_Original ==
    \A t \in tasks :
       IF t.is_regular
       THEN Cardinality(RegularRows(t.id)) = 1 /\ IrregularRows(t.id) = {}
       ELSE Cardinality(IrregularRows(t.id)) = 1 /\ RegularRows(t.id) = {}

\* C5 amended: a Task made by a successful create_regular_task or
\* create_irregular_task has exactly one extension row, of the kind its flag
\* selects, and none of the other kind; a Task made by create_task alone, or
\* left behind by a composed create whose extension insert failed, has no
\* extension row; and no operation adds, removes or swaps the extension rows
\* or the flag of a Task that stays in the store.
C5_ExtensionPerCreate ==
    [][ DB' # DB =>
        /\ \A t \in tasks' :
              IF t.id \in TaskIdsOf(tasks)
              THEN /\ \E s \in tasks : s.id = t.id /\ s.is_regular = t.is_regular
                   /\ ExtensionIds(regular_tasks', t.id) =
                         ExtensionIds(regular_tasks, t.id)
                   /\ ExtensionIds(irregular_tasks', t.id) =
                         ExtensionIds(irregular_tasks, t.id)
              ELSE IF last'.ok /\ last'.op = "create_regular_task"
              THEN /\ t.is_regular /\ t.id = last'.id
                   /\ Cardinality(ExtensionIds(regular_tasks', t.id)) = 1
                   /\ ExtensionIds(irregular_tasks', t.id) = {}
              ELSE IF last'.ok /\ last'.op = "create_irregular_task"
              THEN /\ ~t.is_regular /\ t.id = last'.id
                   /\ Cardinality(ExtensionIds(irregular_tasks', t.id)) = 1
                   /\ ExtensionIds(regular_tasks', t.id) = {}
              ELSE /\ ExtensionIds(regular_tasks', t.id) = {}
                   /\ ExtensionIds(irregular_tasks', t.id) = {}
                   /\ \/ last'.op = "create_task" /\ last'.ok
                      \/ last'.op \in {"create_regular_task", "create_irregular_task"}
                         /\ ~last'.ok
        /\ \A r \in regular_tasks' \cup irregular_tasks' :
              r.task_id \in TaskIdsOf(tasks')
      ]_vars

\* A regular task with its one RegularTask row was just made, next to a Task
\* that has no extension row.
C5_Witness ==
    /\ last.op = "create_regular_task" /\ last.ok
    /\ Cardinality(RegularRows(last.id)) = 1
    /\ \E t \in tasks : RegularRows(t.id) = {} /\ IrregularRows(t.id) = {}

\* C6: when the extension insert of create_regular_task or
\* create_irregular_task fails for an existing user, the caller gets an error
\* and no id, no extension row is persisted or left pending, and the base Task
\* committed by create_task stays, visible through get_user_tasks and
\* get_task_details without extension fields.
C6_PartialWrite ==
    [][ last'.op \in {"create_regular_task", "create_irregular_task"} =>
        \A U \in UserIdArgs, T \in TaskIdArgs, n \in CoreInputs.new_task :
           get_user(U) # None /\ T = seq.tasks =>
             /\ \A w \in CoreInputs.new_weekdays :
                   create_regular_task(U, n, w, "extension") =>
                      LET base == [id |-> T, user_id |-> U, name |-> n,
                                   progress |-> 0, is_regular |-> TRUE]
                      IN  /\ ~last'.ok /\ last'.id = 0
                          /\ pending' = <<>>
                          /\ base \notin tasks /\ tasks' = tasks \cup {base}
                          /\ regular_tasks' = regular_tasks
                          /\ irregular_tasks' = irregular_tasks
                          /\ users' = users /\ user_ids' = user_ids
                          /\ base \in get_user_tasks(U)'
                          /\ get_task_details(T)' = base
             /\ \A d1 \in CoreInputs.new_optimal, d2 \in CoreInputs.new_hard :
                   create_irregular_task(U, n, d1, d2, "extension") =>
                      LET base == [id |-> T, user_id |-> U, name |-> n,
                                   progress |-> 0, is_regular |-> FALSE]
                      IN  /\ ~last'.ok /\ last'.id = 0
                          /\ pending' = <<>>
                          /\ base \notin tasks /\ tasks' = tasks \cup {base}
                          /\ regular_tasks' = regular_tasks
                          /\ irregular_tasks' = irregular_tasks
                          /\ users' = users /\ user_ids' = user_ids
                          /\ base \in get_user_tasks(U)'
                          /\ get_task_details(T)' = base
      ]_vars

\* create_regular_task raised and the newest Task is a regular one without a
\* RegularTask row, while no RegularTask row was ever inserted.
C6_Witness ==
    /\ last.op = "create_regular_task" /\ ~last.ok
    /\ seq.regular_tasks = 1
    /\ \E t \in tasks : t.id = seq.tasks - 1 /\ t.is_regular
    /\ \E t \in tasks : "weekdays" \notin DOMAIN get_task_details(t.id)

\* The calls of the life-cycle specification in which the store raises.
StoreRaisedIn(op) ==
    CASE op = "create_user" ->
            \E n \in CoreInputs.new_user : create_user(n, TRUE)
      [] op = "add_user_identifier" ->
            \E U \in UserIdArgs, i \in CoreInputs.identifier,
               t \in CoreInputs.identifier_type :
               add_user_identifier(U, i, t, TRUE)
               \/ (get_user(U) = None /\ add_user_identifier(U, i, t, FALSE))
      [] op = "update_user" ->
            \E U \in UserIdArgs, n \in CoreInputs.user_name :
               get_user(U) # None /\ update_user(U, n, TRUE)
      [] op = "delete_user" ->
            \E U \in UserIdArgs : get_user(U) # None /\ delete_user(U, TRUE)
      [] op = "create_task" ->
            \E U \in UserIdArgs, n \in CoreInputs.new_task, g \in BOOLEAN :
               create_task(U, n, g, TRUE)
               \/ (get_user(U) = None /\ create_task(U, n, g, FALSE))
      [] op = "create_regular_task" ->
            \E U \in UserIdArgs, n \in CoreInputs.new_task,
               w \in CoreInputs.new_weekdays, f \in FailPoints :
               (f # "none" \/ get_user(U) = None) /\ create_regular_task(U, n, w, f)
      [] op = "create_irregular_task" ->
            \E U \in UserIdArgs, n \in CoreInputs.new_task,
               d1 \in CoreInputs.new_optimal, d2 \in CoreInputs.new_hard,
               f \in FailPoints :
               (f # "none" \/ get_user(U) = None)
                  /\ create_irregular_task(U, n, d1, d2, f)
      [] op = "update_task_progress" ->
            \E T \in TaskIdArgs, p \in CoreInputs.progress :
               get_task(T) # None /\ update_task_progress(T, p, TRUE)
      [] op = "update_regular_task" ->
            \E T \in TaskIdArgs, n \in CoreInputs.task_name,
               w \in CoreInputs.weekdays :
               regular_task_of(T) # None /\ update_regular_task(T, n, w, TRUE)
      [] op = "update_irregular_task" ->
            \E T \in TaskIdArgs, n \in CoreInputs.task_name,
               d1 \in CoreInputs.optimal, d2 \in CoreInputs.hard :
               irregular_task_of(T) # None
                  /\ update_irregular_task(T, n, d1, d2, TRUE)
      [] op = "delete_task" ->
            \E T \in TaskIdArgs : get_task(T) # None /\ delete_task(T, TRUE)

\* C7: after every call, returned or raised, the session holds no pending
\* write; a call in which the store raised (a failing commit, or a foreign
\* key it rejects) hands the caller an error; and a call that raised
\* persisted nothing, except that a composed create whose extension unit
\* failed keeps the one base Task its create_task unit had committed.
C7_CommitOrRollback ==
    [][ /\ pending' = <<>>
        /\ last'.ok => ~StoreRaisedIn(last'.op)
        /\ ~last'.ok =>
              \/ DB' = DB
              \/ /\ last'.op \in {"create_regular_task", "create_irregular_task"}
                 /\ users' = users /\ user_ids' = user_ids
                 /\ regular_tasks' = regular_tasks
                 /\ irregular_tasks' = irregular_tasks
                 /\ tasks \subseteq tasks'
                 /\ Cardinality(tasks' \ tasks) = 1
      ]_vars

\* create_user can only fail in the store: it raised, after an earlier
\* commit, and the session is clean.
C7_Witness ==
    /\ last.op = "create_user" /\ ~last.ok
    /\ users # {} /\ tasks # {}
    /\ pending = <<>>

\* C9: a user leaves the store only in a successful delete_user of that
\* user, and a task only in a successful delete_task of that task or
\* delete_user of its owner; ids are never handed out twice, so the id a
\* create returned keeps naming the row it made; and right after
\* create_user(n) returned U, get_user(U) is the user named n.
C9_Persistence ==
    [][ /\ \A u \in users :
              \/ \E v \in users' : v.id = u.id
              \/ last'.op = "delete_user" /\ last'.ok /\ delete_user(u.id, FALSE)
        /\ \A t \in tasks :
              \/ \E v \in tasks' : v.id = t.id /\ v.user_id = t.user_id
              \/ last'.op = "delete_task" /\ last'.ok /\ delete_task(t.id, FALSE)
              \/ last'.op = "delete_user" /\ last'.ok
                    /\ delete_user(t.user_id, FALSE)
        /\ \A k \in DOMAIN seq : seq'[k] >= seq[k]
        /\ \A u \in users' : u.id < seq'.users
        /\ \A t \in tasks' : t.id < seq'.tasks
        /\ last'.op = "create_user" /\ last'.ok =>
              \E n \in CoreInputs.new_user, U \in UserIdArgs :
                 /\ create_user(n, FALSE)
                 /\ last'.id = U /\ U = seq.users
                 /\ get_user(U)' = [id |-> U, name |-> n]
        /\ last'.op \in {"create_task", "create_regular_task",
                         "create_irregular_task"} /\ last'.ok =>
              \E T \in TaskIdArgs :
                 last'.id = T /\ T = seq.tasks /\ get_task(T)' # None
      ]_vars

\* A user was deleted while an older user and that user's task are still
\* fetched under the ids their creates returned.
C9_Witness ==
    /\ last.op = "delete_user" /\ last.ok
    /\ get_user(1) # None /\ get_user(2) = None /\ seq.users = 3
    /\ get_task(1) # None

\* C4 as stated: right after add_user_identifier(U, i, t) returned for an
\* existing user U, get_user_by_identifier(i, t) can only return U, also
\* when another user holds the same pair; and a pair no identifier row
\* carries is looked up as None.
C4_Original ==
    [][ /\ \A U \in UserIdArgs, i \in IdentifierInputs.identifier,
              t \in IdentifierInputs.identifier_type :
              last'.op = "add_user_identifier" /\ last'.ok
                 /\ get_user(U) # None /\ add_user_identifier(U, i, t, FALSE)
              => get_user_by_identifier(i, t)' = {get_user(U)'}
        /\ \A i \in IdentifierInputs.identifier,
              t \in IdentifierInputs.identifier_type :
              (\A r \in user_ids' : r.identifier # i \/ r.identifier_type # t)
              => get_user_by_identifier(i, t)' = {None}
      ]_vars

\* C8: update_task_progress(T, p) of a stored task T, for the unvalidated
\* p the callers pass (below 0 and above 100 too), returns True when the
\* store accepts the commit; get_task and get_task_details of T then show
\* progress p with every other field of T, its extension rows and all
\* other rows as before. No other call changes a progress, and a task is
\* created with progress 0.
C8_ProgressUnvalidated ==
    [][ /\ \A T \in TaskIdArgs, p \in ProgressInputs.progress :
              last'.op = "update_task_progress" /\ get_task(T) # None
                 /\ update_task_progress(T, p, FALSE)
              => /\ last'.ok
                 /\ get_task(T)' = [get_task(T) EXCEPT !.progress = p]
                 /\ get_task_details(T)'.progress = p
                 /\ tasks' \ {get_task(T)'} = tasks \ {get_task(T)}
                 /\ users' = users /\ user_ids' = user_ids
                 /\ regular_tasks' = regular_tasks
                 /\ irregular_tasks' = irregular_tasks
        /\ ~(last'.op = "update_task_progress" /\ last'.ok)
              => \A t \in tasks' :
                    \/ \E s \in tasks : s.id = t.id /\ s.progress = t.progress
                    \/ t.id >= seq.tasks /\ t.progress = 0
      ]_vars

\* A regular task at progress 101 beside a task at progress -1.
C8_Witness ==
    /\ last.op = "update_task_progress" /\ last.ok
    /\ \E t, s \in tasks :
          /\ t.progress = 101 /\ t.is_regular /\ regular_task_of(t.id) # None
          /\ s.progress = -1

\* C10 as stated: a returned update_regular_task / update_irregular_task
\* has written every argument that is not None and left every None field
\* as it was, other rows untouched; a call the store fails, or one on a
\* task without the addressed extension row, raises and changes nothing.
C10_Original ==
    [][ /\ \A T \in TaskIdArgs, n \in UpdateInputs.task_name,
              w \in UpdateInputs.weekdays, f \in BOOLEAN :
              last'.op = "update_regular_task" /\ update_regular_task(T, n, w, f)
              => IF regular_task_of(T) = None \/ f
                 THEN ~last'.ok /\ DB' = DB
                 ELSE /\ last'.ok
                      /\ get_task(T)' =
                            [get_task(T) EXCEPT
                                !.name = IF n = NoneArg THEN @ ELSE n]
                      /\ regular_task_of(T)' =
                            [regular_task_of(T) EXCEPT
                                !.weekdays = IF w = NoneArg THEN @ ELSE w]
                      /\ tasks' \ {get_task(T)'} = tasks \ {get_task(T)}
                      /\ regular_tasks' \ {regular_task_of(T)'}
                            = regular_tasks \ {regular_task_of(T)}
                      /\ users' = users /\ user_ids' = user_ids
                      /\ irregular_tasks' = irregular_tasks
        /\ \A T \in TaskIdArgs, n \in UpdateInputs.task_name,
              d1 \in UpdateInputs.optimal, d2 \in UpdateInputs.hard,
              f \in BOOLEAN :
              last'.op = "update_irregular_task"
                 /\ update_irregular_task(T, n, d1, d2, f)
              => IF irregular_task_of(T) = None \/ f
                 THEN ~last'.ok /\ DB' = DB
                 ELSE /\ last'.ok
                      /\ get_task(T)' =
                            [get_task(T) EXCEPT
                                !.name = IF n = NoneArg THEN @ ELSE n]
                      /\ irregular_task_of(T)' =
                            [irregular_task_of(T) EXCEPT
                                !.optimal_deadline = IF d1 = NoneArg THEN @ ELSE d1,
                                !.hard_deadline = IF d2 = NoneArg THEN @ ELSE d2]
                      /\ tasks' \ {get_task(T)'} = tasks \ {get_task(T)}
                      /\ irregular_tasks' \ {irregular_task_of(T)'}
                            = irregular_tasks \ {irregular_task_of(T)}
                      /\ users' = users /\ user_ids' = user_ids
                      /\ regular_tasks' = regular_tasks
      ]_vars

\* The extension rows agree with the flags: a regular row hangs on a task
\* flagged regular, an irregular row on a task flagged irregular, and a
\* task carries at most one extension row in all.
ExtensionKindsAgree ==
    /\ \A r \in regular_tasks :
          \E t \in tasks : t.id = r.task_id /\ t.is_regular
    /\ \A r \in irregular_tasks :
          \E t \in tasks : t.id = r.task_id /\ ~t.is_regular
    /\ \A t \in tasks :
          /\ RegularRows(t.id) = {} \/ IrregularRows(t.id) = {}
          /\ Cardinality(RegularRows(t.id)) <= 1
          /\ Cardinality(IrregularRows(t.id)) <= 1

\* C11: in every reachable state a RegularTask row exists only for a task
\* with is_regular true, an IrregularTask row only for a task with
\* is_regular false, no task has both kinds and none has two rows of its
\* kind; and no call changes the is_regular of a stored task or inserts
\* an extension row for a task that was already stored.
C11_ExtensionKinds ==
    /\ []ExtensionKindsAgree
    /\ [][ /\ \A t \in tasks : \A v \in tasks' :
                 v.id = t.id => v.is_regular = t.is_regular
           /\ \A r \in (regular_tasks' \ regular_tasks)
                       \cup (irregular_tasks' \ irregular_tasks) :
                 \/ \A t \in tasks : t.id # r.task_id
                 \/ \E q \in regular_tasks \cup irregular_tasks :
                       q.id = r.id /\ q.task_id = r.task_id
         ]_vars

\* Both kinds are stored, each with its own row, and an update of the
\* regular task has just been committed.
C11_Witness ==
    /\ last.op = "update_regular_task" /\ last.ok
    /\ \E t, s \in tasks :
          /\ t.is_regular /\ Cardinality(RegularRows(t.id)) = 1
          /\ ~s.is_regular /\ Cardinality(IrregularRows(s.id)) = 1

====
